---- MODULE Spec2Model ----
(***************************************************************************)
(* Model of api/download.go (gocommerce): the handlers DownloadURL,        *)
(* DownloadList and DownloadRefresh running as concurrent requests against *)
(* one relational store (orders, downloads, events).                       *)
(*                                                                         *)
(* Time is counted in hours.  A request's position in its handler is       *)
(* req[r].pc; the store is read and written only at the handler's queries  *)
(* and at the commit of its transaction.                                   *)
(***************************************************************************)
EXTENDS Integers, Sequences, FiniteSets, TLC

\* ------------------------------------------------------------------ constants

\* const maxIPsPerDay = 50
maxIPsPerDay == 50

\* time.Now().Add(-24*time.Hour): the length of the trailing window, in hours
WindowHours == 24

\* models.PaidState
PaidState == "paid"

\* models.EventUpdated
EventUpdated == "updated"

\* ------------------------------------------------------------------ bounds

\* how many hours the clock may advance during a run
MaxTicks == 1

\* how many store or signing failures may happen during a run
MaxFaults == 1

\* the clock at the start of a run: one full window after time 0
StartTime == WindowHours

MaxTime == StartTime + MaxTicks

\* the events already in the ledger at the start were written one hour after
\* time 0: inside the window at StartTime, exactly on its open end one hour later
SeedTime == StartTime - WindowHours + 1

\* how many distinct addresses have already downloaded from order O1
SeedCounts == {0, maxIPsPerDay - 1, maxIPsPerDay, maxIPsPerDay + 1}

\* the requests in flight: r1 is any request of any caller; r2 is a download of
\* D1 by the owner of its order, running concurrently with r1
Reqs == {"r1", "r2"}

\* the addresses a request may come from: 1 is among the seeded addresses
\* whenever there are any, 101 and 102 are never seeded
RemoteAddrs(r) == IF r = "r1" THEN {1, 101} ELSE {102}

\* ------------------------------------------------------------------ callers

NoClaims == <<>>

ClaimsOf(u) == <<[Subject |-> u]>>

\* the request context: the verified claims (or none) and the admin capability
Contexts ==
    { [claims |-> NoClaims,      admin |-> FALSE],
      [claims |-> NoClaims,      admin |-> TRUE],
      [claims |-> ClaimsOf("u1"), admin |-> FALSE],
      [claims |-> ClaimsOf("u2"), admin |-> FALSE],
      [claims |-> ClaimsOf("u2"), admin |-> TRUE] }

\* ------------------------------------------------------------------ the store

VARIABLES
    orders,     \* the orders table: id -> row
    downloads,  \* the downloads table: id -> row
    ledger,     \* the events table, in insertion order
    now,        \* the wall clock (time.Now), in hours
    req         \* per request: its arguments, position, locals and response

vars == <<orders, downloads, ledger, now, req>>

OrderRow(id, user, state) == [id |-> id, user_id |-> user, payment_state |-> state]

DownloadRow(id, order, n) == [id |-> id, order_id |-> order, download_count |-> n, url |-> ""]

\* models.Event as LogEvent fills it; created_at is set by the store layer on insert
EventRow(ip, subject, orderID, type, changes, at) ==
    [ip |-> ip, user_id |-> subject, order_id |-> orderID, type |-> type,
     changes |-> changes, created_at |-> at]

\* models.LogEvent(db, ip, userID, orderID, eventType, changes): one new Event row
LogEvent(ip, subject, orderID, type, changes, at) ==
    <<EventRow(ip, subject, orderID, type, changes, at)>>

\* the download ids a request may name: D1 (order O1, paid), D2 (order O2, not
\* paid), D3 (its order O9 does not exist), D4 (absent until a refresh adds it)
DownloadIDs == {"D1", "D2", "D3", "D4"}

\* the arguments a DownloadURL request may arrive with
URLArgs(r) ==
    IF r = "r1"
    THEN [download_id : DownloadIDs, ctx : Contexts, ip : RemoteAddrs(r)]
    ELSE [download_id : {"D1"},
          ctx : {[claims |-> ClaimsOf("u1"), admin |-> FALSE]},
          ip : RemoteAddrs(r)]

NoDownload == DownloadRow("", "", 0)

NoOrder == OrderRow("", "", "")

NoTx == [begun |-> FALSE, inc |-> FALSE, events |-> <<>>,
         updErr |-> FALSE, logErr |-> FALSE, commitErr |-> FALSE]

NoResult == [kind |-> "", msg |-> ""]

\* the order ids a request may name: O9 does not exist, "" is no order id
OrderIDs == {"", "O1", "O2", "O9"}

\* the (offset, limit) pairs a DownloadList request may arrive with
Paginations == {<<0, 2>>, <<1, 1>>, <<-1, 2>>, <<0, -1>>}

\* the download ids UpdateDownloads may add to an order
NewDownloadIDs == {"D4"}

\* the order of the rows of a select without an order clause: by id
DownloadOrder == <<"D1", "D2", "D3", "D4">>

NoRows == [d \in {} |-> NoDownload]

IdleReq ==
    [op |-> "", pc |-> "Idle", download_id |-> "", ctx |-> [claims |-> NoClaims, admin |-> FALSE],
     ip |-> 0, download |-> NoDownload, order |-> NoOrder, count |-> 0,
     tx |-> NoTx, result |-> NoResult, body |-> NoDownload,
     order_id |-> "", offset |-> 0, limit |-> 0, preloaded |-> NoRows,
     queries |-> <<>>, list |-> <<>>]

\* n events tagged "download" of order O1, from the addresses 1..n
SeedLedger(n) ==
    [i \in 1..n |-> EventRow(i, "u1", "O1", EventUpdated, <<"download">>, SeedTime)]

Init ==
    \E n \in SeedCounts :
        /\ orders = [o \in {"O1", "O2"} |->
                        IF o = "O1" THEN OrderRow("O1", "u1", PaidState)
                                    ELSE OrderRow("O2", "u1", "pending")]
        /\ downloads = [d \in {"D1", "D2", "D3"} |->
                        CASE d = "D1" -> DownloadRow("D1", "O1", n)
                          [] d = "D2" -> DownloadRow("D2", "O2", 0)
                          [] d = "D3" -> DownloadRow("D3", "O9", 0)]
        /\ ledger = SeedLedger(n)
        /\ now = StartTime
        /\ req = [r \in Reqs |-> IdleReq]

\* ------------------------------------------------------------------ errors

\* notFoundError / unauthorizedError / internalServerError: the handler returns
Fail(r, kind, msg) ==
    [req EXCEPT ![r].pc = "Failed", ![r].result = [kind |-> kind, msg |-> msg]]

\* the failures that have happened so far: every Internal response, and every
\* failed statement or commit of a transaction (which the handler does not report)
FaultsSoFar ==
    Cardinality({ r \in Reqs : req[r].result.kind = "Internal" })
    + Cardinality({ r \in Reqs : req[r].tx.updErr })
    + Cardinality({ r \in Reqs : req[r].tx.logErr })
    + Cardinality({ r \in Reqs : req[r].tx.commitErr })

\* whether n more failures may happen
MayFail(n) == FaultsSoFar + n <= MaxFaults

\* 1 for a failure, 0 for none
Failed(err) == IF err THEN 1 ELSE 0

\* ------------------------------------------------------------------ entitlement

\* hasOrderAccess(ctx, order): the caller owns the order or is an admin
hasOrderAccess(ctx, order) ==
    \/ ctx.admin
    \/ /\ ctx.claims # NoClaims
       /\ ctx.claims[1].Subject = order.user_id

\* the ownership check left out
AccessDenied_never(ctx, order) == FALSE

\* if !hasOrderAccess(ctx, order) { return unauthorizedError(...) }
AccessDenied(ctx, order) == ~hasOrderAccess(ctx, order)

\* the paid check left out
NotPaid_never(order) == FALSE

\* if order.PaymentState != models.PaidState { return unauthorizedError(...) }
NotPaid(order) == order.payment_state # PaidState

\* ------------------------------------------------------------------ throttle

\* the window closed at its lower end: created_at >= ?
InWindow_closed(created_at, since) == created_at >= since

\* created_at > ?   with ? = time.Now().Add(-24*time.Hour)
InWindow(created_at, since) == created_at > since

\* the tag misspelt in the query: no event matches
IsDownloadChange_typo(changes) == changes = <<"downloads">>

\* changes = 'download': the stored tag list is exactly the one tag
IsDownloadChange(changes) == changes = <<"download">>

\* select count(distinct(ip)) from events
\*   where order_id = ? and created_at > ? and changes = 'download'
CountDistinctIPs(events, orderID, since) ==
    Cardinality({ events[i].ip : i \in
        { j \in DOMAIN events : /\ events[j].order_id = orderID
                                /\ InWindow(events[j].created_at, since)
                                /\ IsDownloadChange(events[j].changes) } })

\* the limit taken one higher
OverLimit_lax(count) == count > maxIPsPerDay + 1

\* the limit compared with >= instead of >
OverLimit_atLimit(count) == count >= maxIPsPerDay

\* if count > maxIPsPerDay { return unauthorizedError(...) }
OverLimit(count) == count > maxIPsPerDay

\* ------------------------------------------------------------------ DownloadURL

\* the request arrives: download_id, claims and remote address are read
ReceiveURL(r) ==
    /\ req[r].pc = "Idle"
    /\ \E a \in URLArgs(r) :
          req' = [req EXCEPT ![r].op = "url", ![r].pc = "Start",
                             ![r].download_id = a.download_id, ![r].ctx = a.ctx,
                             ![r].ip = a.ip]
    /\ UNCHANGED <<orders, downloads, ledger, now>>

\* a Download whose Order is missing answered with internalServerError
Load_orderInternal(r) ==
    /\ req[r].op = "url"
    /\ req[r].pc = "Start"
    /\ \E dbErr \in BOOLEAN :
          /\ MayFail(Failed(dbErr))
          /\ LET id == req[r].download_id IN
                IF dbErr
                THEN req' = Fail(r, "Internal", "Error during database query")
                ELSE IF id \notin DOMAIN downloads
                THEN req' = Fail(r, "NotFound", "Download not found")
                ELSE IF downloads[id].order_id \notin DOMAIN orders
                THEN req' = Fail(r, "Internal", "Download order not found")
                ELSE req' = [req EXCEPT ![r].pc = "Loaded",
                                        ![r].download = downloads[id],
                                        ![r].order = orders[downloads[id].order_id]]
    /\ UNCHANGED <<orders, downloads, ledger, now>>

\* load the Download by id, then its Order
Load(r) ==
    /\ req[r].op = "url"
    /\ req[r].pc = "Start"
    /\ \E dbErr \in BOOLEAN :
          /\ MayFail(Failed(dbErr))
          /\ LET id == req[r].download_id IN
                IF dbErr
                THEN req' = Fail(r, "Internal", "Error during database query")
                ELSE IF id \notin DOMAIN downloads
                THEN req' = Fail(r, "NotFound", "Download not found")
                ELSE IF downloads[id].order_id \notin DOMAIN orders
                THEN req' = Fail(r, "NotFound", "Download order not found")
                ELSE req' = [req EXCEPT ![r].pc = "Loaded",
                                        ![r].download = downloads[id],
                                        ![r].order = orders[downloads[id].order_id]]
    /\ UNCHANGED <<orders, downloads, ledger, now>>

\* the paid check answers Unauthorized and the handler goes on
Authorize_noReturn(r) ==
    /\ req[r].op = "url"
    /\ req[r].pc = "Loaded"
    /\ IF AccessDenied(req[r].ctx, req[r].order)
       THEN req' = Fail(r, "Unauthorized", "Not Authorized to access this download")
       ELSE IF NotPaid(req[r].order)
       THEN req' = [req EXCEPT ![r].pc = "Authorized",
                               ![r].result = [kind |-> "Unauthorized",
                                              msg |-> "This download has not been paid yet"]]
       ELSE req' = [req EXCEPT ![r].pc = "Authorized"]
    /\ UNCHANGED <<orders, downloads, ledger, now>>

\* the ownership check, then the paid check
Authorize(r) ==
    /\ req[r].op = "url"
    /\ req[r].pc = "Loaded"
    /\ IF AccessDenied(req[r].ctx, req[r].order)
       THEN req' = Fail(r, "Unauthorized", "Not Authorized to access this download")
       ELSE IF NotPaid(req[r].order)
       THEN req' = Fail(r, "Unauthorized", "This download has not been paid yet")
       ELSE req' = [req EXCEPT ![r].pc = "Authorized"]
    /\ UNCHANGED <<orders, downloads, ledger, now>>

\* a refused attempt is logged as a download event too
Throttle_logsDenied(r) ==
    /\ req[r].op = "url"
    /\ req[r].pc = "Authorized"
    /\ \E queryErr \in BOOLEAN :
          /\ MayFail(Failed(queryErr))
          /\ LET since == now - WindowHours
                 count == CountDistinctIPs(ledger, req[r].order.id, since) IN
                IF queryErr
                THEN /\ req' = Fail(r, "Internal", "Error signing download")
                     /\ ledger' = ledger
                ELSE IF OverLimit(count)
                THEN /\ req' = [Fail(r, "Unauthorized",
                                  "This download has been accessed from too many IPs within the last day")
                                  EXCEPT ![r].count = count]
                     /\ ledger' = ledger \o LogEvent(req[r].ip, "",
                                                     req[r].order.id, EventUpdated,
                                                     <<"download">>, now)
                ELSE /\ req' = [req EXCEPT ![r].pc = "ThrottleChecked", ![r].count = count]
                     /\ ledger' = ledger
    /\ UNCHANGED <<orders, downloads, now>>

\* the distinct-address count over the last 24 hours, and the limit
Throttle(r) ==
    /\ req[r].op = "url"
    /\ req[r].pc = "Authorized"
    /\ \E queryErr \in BOOLEAN :
          /\ MayFail(Failed(queryErr))
          /\ LET since == now - WindowHours
                 count == CountDistinctIPs(ledger, req[r].order.id, since) IN
                IF queryErr
                THEN req' = Fail(r, "Internal", "Error signing download")
                ELSE IF OverLimit(count)
                THEN req' = [Fail(r, "Unauthorized",
                               "This download has been accessed from too many IPs within the last day")
                               EXCEPT ![r].count = count]
                ELSE req' = [req EXCEPT ![r].pc = "ThrottleChecked", ![r].count = count]
    /\ UNCHANGED <<orders, downloads, ledger, now>>

\* the counter is incremented before signing, outside the later transaction
Sign_countsFirst(r) ==
    /\ req[r].op = "url"
    /\ req[r].pc = "ThrottleChecked"
    /\ \E signErr \in BOOLEAN :
          /\ MayFail(Failed(signErr))
          /\ IF signErr
             THEN req' = Fail(r, "Internal", "Error signing download")
             ELSE req' = [req EXCEPT ![r].pc = "Signed", ![r].download.url = "signed"]
    /\ downloads' = [downloads EXCEPT ![req[r].download.id].download_count = @ + 1]
    /\ UNCHANGED <<orders, ledger, now>>

\* the error of SignURL is dropped and the handler goes on with no URL
Sign_swallow(r) ==
    /\ req[r].op = "url"
    /\ req[r].pc = "ThrottleChecked"
    /\ \E signErr \in BOOLEAN :
          /\ MayFail(Failed(signErr))
          /\ IF signErr
             THEN req' = [req EXCEPT ![r].pc = "Signed"]
             ELSE req' = [req EXCEPT ![r].pc = "Signed", ![r].download.url = "signed"]
    /\ UNCHANGED <<orders, downloads, ledger, now>>

\* download.SignURL(assets): sets the URL on the in-memory Download, or fails
Sign(r) ==
    /\ req[r].op = "url"
    /\ req[r].pc = "ThrottleChecked"
    /\ \E signErr \in BOOLEAN :
          /\ MayFail(Failed(signErr))
          /\ IF signErr
             THEN req' = Fail(r, "Internal", "Error signing download")
             ELSE req' = [req EXCEPT ![r].pc = "Signed", ![r].download.url = "signed"]
    /\ UNCHANGED <<orders, downloads, ledger, now>>

\* the subject never taken from the claims
Subject_empty(claims) == ""

\* var subject string; if claims != nil { subject = claims.Subject }
Subject(claims) == IF claims # NoClaims THEN claims[1].Subject ELSE ""

\* tx := db.Begin(); the counter update and the event insert run inside tx.
\* Neither statement's error is looked at: a statement that failed leaves
\* nothing pending, and the handler goes on to the next one.
Record(r) ==
    /\ req[r].op = "url"
    /\ req[r].pc = "Signed"
    /\ \E updErr \in BOOLEAN, logErr \in BOOLEAN :
          /\ MayFail(Failed(updErr) + Failed(logErr))
          /\ req' = [req EXCEPT
                    ![r].pc = "InTx",
                    ![r].tx = [begun |-> TRUE,
                               inc |-> ~updErr,
                               events |-> IF logErr THEN <<>>
                                          ELSE LogEvent(req[r].ip, Subject(req[r].ctx.claims),
                                                        req[r].order.id, EventUpdated,
                                                        <<"download">>, now),
                               updErr |-> updErr, logErr |-> logErr,
                               commitErr |-> FALSE]]
    /\ UNCHANGED <<orders, downloads, ledger, now>>

\* "download_count": gorm.Expr("download_count + 1"), evaluated by the store
\* on the row with the Download's id
IncrementCount(table, id) ==
    IF id \in DOMAIN table
    THEN [table EXCEPT ![id].download_count = @ + 1]
    ELSE table

\* events that have left the window are dropped when new ones are committed
CommitEvents_prune(events, inserted) ==
    SelectSeq(events, LAMBDA e : e.created_at > now - WindowHours) \o inserted

\* the events table once the transaction's inserts are committed
CommitEvents(events, inserted) == events \o inserted

\* tx.Commit(), its error not looked at; then sendJSON(w, 200, download) with
\* the in-memory Download as loaded and signed
Commit(r) ==
    /\ req[r].op = "url"
    /\ req[r].pc = "InTx"
    /\ \E commitErr \in BOOLEAN :
          /\ MayFail(Failed(commitErr))
          /\ IF commitErr
             THEN UNCHANGED <<downloads, ledger>>
             ELSE /\ downloads' = IF req[r].tx.inc
                                  THEN IncrementCount(downloads, req[r].download.id)
                                  ELSE downloads
                  /\ ledger' = CommitEvents(ledger, req[r].tx.events)
          /\ req' = [req EXCEPT ![r].pc = "Done",
                                ![r].tx.commitErr = commitErr,
                                ![r].result = [kind |-> "OK", msg |-> ""],
                                ![r].body = req[r].download]
    /\ UNCHANGED <<orders, now>>

\* ------------------------------------------------------------------ DownloadList

\* the request arrives: order id (or none), claims, offset and limit
ReceiveList(r) ==
    /\ r = "r1"
    /\ req[r].pc = "Idle"
    /\ \E o \in OrderIDs, c \in Contexts, p \in Paginations :
          req' = [req EXCEPT ![r].op = "list", ![r].pc = "Start", ![r].order_id = o,
                             ![r].ctx = c, ![r].offset = p[1], ![r].limit = p[2]]
    /\ UNCHANGED <<orders, downloads, ledger, now>>

\* paginate(w, r, query): the offset and the limit must not be negative
PaginateErr(offset, limit) == offset < 0 \/ limit < 0

\* the join without its payment_state condition
ListQuery_anyState(id, byOrder, key) ==
    /\ id \in DOMAIN downloads
    /\ downloads[id].order_id \in DOMAIN orders
    /\ IF byOrder
       THEN orders[downloads[id].order_id].id = key
       ELSE orders[downloads[id].order_id].user_id = key

\* join orders on downloads.order_id = orders.id and orders.payment_state = 'paid'
\* where orders.id = ?        (an order is given)
\* where orders.user_id = ?   (no order is given: the caller's subject)
ListQuery(id, byOrder, key) ==
    /\ id \in DOMAIN downloads
    /\ downloads[id].order_id \in DOMAIN orders
    /\ orders[downloads[id].order_id].payment_state = "paid"
    /\ IF byOrder
       THEN orders[downloads[id].order_id].id = key
       ELSE orders[downloads[id].order_id].user_id = key

\* query.Offset(offset).Limit(limit).Find(&downloads)
Page(rows, offset, limit) ==
    SubSeq(rows, offset + 1, IF offset + limit < Len(rows) THEN offset + limit ELSE Len(rows))

\* the whole handler: it only reads the store
DownloadList(r) ==
    /\ req[r].op = "list"
    /\ req[r].pc = "Start"
    /\ \E dbErr \in BOOLEAN :
          /\ MayFail(Failed(dbErr))
          /\ LET q       == req[r]
                 byOrder == q.order_id # ""
                 lookup  == IF byOrder THEN <<"order">> ELSE <<>>
                 key     == IF byOrder THEN q.order_id ELSE Subject(q.ctx.claims)
                 rows    == SelectSeq(DownloadOrder, LAMBDA id : ListQuery(id, byOrder, key))
             IN
                IF byOrder /\ dbErr
                THEN req' = [Fail(r, "Internal", "Error during database query")
                                EXCEPT ![r].queries = lookup]
                ELSE IF byOrder /\ q.order_id \notin DOMAIN orders
                THEN req' = [Fail(r, "NotFound", "Download order not found")
                                EXCEPT ![r].queries = lookup]
                ELSE IF byOrder /\ AccessDenied(q.ctx, orders[q.order_id])
                THEN req' = [Fail(r, "Unauthorized", "You don't have permission to access this order")
                                EXCEPT ![r].queries = lookup]
                ELSE IF byOrder /\ NotPaid(orders[q.order_id])
                THEN req' = [Fail(r, "Unauthorized", "This order has not been completed yet")
                                EXCEPT ![r].queries = lookup]
                ELSE IF ~byOrder /\ q.ctx.claims = NoClaims
                THEN req' = [Fail(r, "Panic", "nil pointer dereference")
                                EXCEPT ![r].queries = lookup]
                ELSE IF PaginateErr(q.offset, q.limit)
                THEN req' = [Fail(r, "BadRequest", "Bad Pagination Parameters")
                                EXCEPT ![r].queries = lookup]
                ELSE IF dbErr
                THEN req' = [Fail(r, "Internal", "Error during database query")
                                EXCEPT ![r].queries = lookup \o <<"downloads">>]
                ELSE req' = [req EXCEPT ![r].pc = "Done",
                                        ![r].result = [kind |-> "OK", msg |-> ""],
                                        ![r].queries = lookup \o <<"downloads">>,
                                        ![r].list = [i \in DOMAIN Page(rows, q.offset, q.limit) |->
                                                       downloads[Page(rows, q.offset, q.limit)[i]]]]
    /\ UNCHANGED <<orders, downloads, ledger, now>>

\* ------------------------------------------------------------------ DownloadRefresh

\* the request arrives: order id (or none) and claims
ReceiveRefresh(r) ==
    /\ r = "r1"
    /\ req[r].pc = "Idle"
    /\ \E o \in OrderIDs, c \in Contexts :
          req' = [req EXCEPT ![r].op = "refresh", ![r].pc = "Start", ![r].order_id = o,
                             ![r].ctx = c]
    /\ UNCHANGED <<orders, downloads, ledger, now>>

\* Preload("Downloads"): the rows of the order's downloads as they are now
Preload(orderID) ==
    [d \in { x \in DOMAIN downloads : downloads[x].order_id = orderID } |-> downloads[d]]

\* load the Order with its downloads, then the ownership and the paid check
RefreshLoad(r) ==
    /\ req[r].op = "refresh"
    /\ req[r].pc = "Start"
    /\ \E dbErr \in BOOLEAN :
          /\ MayFail(Failed(dbErr))
          /\ LET id == req[r].order_id IN
                IF id = ""
                THEN /\ ~dbErr
                     /\ req' = Fail(r, "BadRequest", "Order id missing")
                ELSE IF dbErr
                THEN req' = Fail(r, "Internal", "Error during database query")
                ELSE IF id \notin DOMAIN orders
                THEN req' = Fail(r, "NotFound", "Download order not found")
                ELSE IF AccessDenied(req[r].ctx, orders[id])
                THEN req' = Fail(r, "Unauthorized", "You don't have permission to access this order")
                ELSE IF NotPaid(orders[id])
                THEN req' = Fail(r, "Unauthorized", "This order has not been completed yet")
                ELSE req' = [req EXCEPT ![r].pc = "Loaded", ![r].order = orders[id],
                                        ![r].preloaded = Preload(id)]
    /\ UNCHANGED <<orders, downloads, ledger, now>>

\* order.UpdateDownloads(config, log): the order's downloads as the catalog has
\* them: the loaded ones, and maybe a new one
UpdateDownloads(order, loaded) ==
    {loaded} \cup
    { [d \in DOMAIN loaded \cup {n} |->
         IF d = n THEN DownloadRow(n, order.id, 0) ELSE loaded[d]]
      : n \in NewDownloadIDs \ DOMAIN loaded }

\* a.db.Save(order): the order and the downloads it holds are written as held
SaveOrder(table, held) ==
    [d \in DOMAIN table \cup DOMAIN held |-> IF d \in DOMAIN held THEN held[d] ELSE table[d]]

\* update the downloads from the catalog and save the order
RefreshSave(r) ==
    /\ req[r].op = "refresh"
    /\ req[r].pc = "Loaded"
    /\ \E updateErr \in BOOLEAN, saveErr \in BOOLEAN,
          held \in UpdateDownloads(req[r].order, req[r].preloaded) :
          /\ MayFail(Failed(updateErr \/ saveErr))
          /\ ~(updateErr /\ saveErr)
          /\ IF updateErr
             THEN /\ req' = Fail(r, "Internal", "Error during updating downloads")
                  /\ UNCHANGED downloads
             ELSE IF saveErr
             THEN /\ req' = Fail(r, "Internal", "Error during saving order")
                  /\ UNCHANGED downloads
             ELSE /\ req' = [req EXCEPT ![r].pc = "Done",
                                        ![r].result = [kind |-> "OK", msg |-> ""],
                                        ![r].preloaded = held]
                  /\ downloads' = SaveOrder(downloads, held)
    /\ UNCHANGED <<orders, ledger, now>>

\* ------------------------------------------------------------------ the clock

Tick ==
    /\ now < MaxTime
    /\ now' = now + 1
    /\ UNCHANGED <<orders, downloads, ledger, req>>

\* ------------------------------------------------------------------ specification

Next ==
    \/ \E r \in Reqs : ReceiveURL(r)
    \/ \E r \in Reqs : Load(r)
    \/ \E r \in Reqs : Authorize(r)
    \/ \E r \in Reqs : Throttle(r)
    \/ \E r \in Reqs : Sign(r)
    \/ \E r \in Reqs : Record(r)
    \/ \E r \in Reqs : Commit(r)
    \/ \E r \in Reqs : ReceiveList(r)
    \/ \E r \in Reqs : DownloadList(r)
    \/ \E r \in Reqs : ReceiveRefresh(r)
    \/ \E r \in Reqs : RefreshLoad(r)
    \/ \E r \in Reqs : RefreshSave(r)
    \/ Tick

Spec == Init /\ [][Next]_vars

\* DownloadURL requests only
NextURL ==
    \/ \E r \in Reqs : ReceiveURL(r)
    \/ \E r \in Reqs : Load(r)
    \/ \E r \in Reqs : Authorize(r)
    \/ \E r \in Reqs : Throttle(r)
    \/ \E r \in Reqs : Sign(r)
    \/ \E r \in Reqs : Record(r)
    \/ \E r \in Reqs : Commit(r)
    \/ Tick

SpecURL == Init /\ [][NextURL]_vars

\* events the count query may meet besides those DownloadURL logs: one tagged
\* "download" and "email", one dated after every reading of the clock, one of
\* another order, one with another tag, one from an address already seen
ForeignEvents ==
    { EventRow(201, "u1", "O1", EventUpdated, <<"download", "email">>, StartTime),
      EventRow(202, "u1", "O1", EventUpdated, <<"download">>, MaxTime + 1),
      EventRow(203, "u1", "O2", EventUpdated, <<"download">>, StartTime),
      EventRow(204, "u1", "O1", EventUpdated, <<"email">>, StartTime),
      EventRow(1, "u1", "O1", EventUpdated, <<"download">>, StartTime) }

\* the store with 50 download events of O1 less than a day old and one
\* foreign event
InitMixed ==
    \E e \in ForeignEvents :
        /\ orders = [o \in {"O1", "O2"} |->
                        IF o = "O1" THEN OrderRow("O1", "u1", PaidState)
                                    ELSE OrderRow("O2", "u1", "pending")]
        /\ downloads = [d \in {"D1", "D2", "D3"} |->
                        CASE d = "D1" -> DownloadRow("D1", "O1", maxIPsPerDay)
                          [] d = "D2" -> DownloadRow("D2", "O2", 0)
                          [] d = "D3" -> DownloadRow("D3", "O9", 0)]
        /\ ledger = SeedLedger(maxIPsPerDay) \o <<e>>
        /\ now = StartTime
        /\ req = [r \in Reqs |-> IdleReq]

SpecMixed == InitMixed /\ [][NextURL]_vars

\* the throttle check of r run while no other request is between its own
\* throttle check and its commit
ThrottleSerial(r) ==
    /\ \A q \in Reqs \ {r} : req[q].pc \notin {"ThrottleChecked", "Signed", "InTx"}
    /\ Throttle(r)

\* DownloadURL requests executed one at a time
NextSerial ==
    \/ \E r \in Reqs : ReceiveURL(r)
    \/ \E r \in Reqs : Load(r)
    \/ \E r \in Reqs : Authorize(r)
    \/ \E r \in Reqs : ThrottleSerial(r)
    \/ \E r \in Reqs : Sign(r)
    \/ \E r \in Reqs : Record(r)
    \/ \E r \in Reqs : Commit(r)
    \/ Tick

SpecSerial == Init /\ [][NextSerial]_vars

\* ------------------------------------------------------------------ claims

URLReqs == { r \in Reqs : req[r].op = "url" }

\* the request's two lookups have run and neither failed in the store
LookedUp(r) ==
    /\ req[r].pc \notin {"Idle", "Start"}
    /\ ~(req[r].pc = "Failed" /\ req[r].result.msg = "Error during database query")

\* the request named a Download that exists and whose Order exists
TargetOrder(r) == orders[downloads[req[r].download_id].order_id]

HasTarget(r) ==
    /\ req[r].download_id \in DOMAIN downloads
    /\ downloads[req[r].download_id].order_id \in DOMAIN orders

Unauthorized(r) == req[r].pc = "Failed" /\ req[r].result.kind = "Unauthorized"

TooManyIPs == "This download has been accessed from too many IPs within the last day"

\* the positions of a request that the throttle check let pass
Admitted == {"ThrottleChecked", "Signed", "InTx", "Done"}

\* C1: a DownloadURL request for an existing Download whose Order is not paid,
\* once its lookups have returned the rows, is either about to be checked or has
\* failed with Unauthorized, whoever the caller is; it is never authorized,
\* signed, recorded or done.
C1_UnpaidIsUnauthorized ==
    \A r \in URLReqs :
        (LookedUp(r) /\ HasTarget(r) /\ TargetOrder(r).payment_state # "paid")
            => (req[r].pc = "Loaded" \/ Unauthorized(r))

\* C1 witness: an admin's request for D2 (order O2, not paid) was refused.
C1_Witness ==
    /\ req["r1"].op = "url"
    /\ req["r1"].download_id = "D2"
    /\ req["r1"].ctx.admin
    /\ Unauthorized("r1")
    /\ req["r1"].result.msg = "This download has not been paid yet"

\* the caller is neither the owner of the order nor an admin
Stranger(ctx, order) ==
    /\ ~ctx.admin
    /\ \A i \in DOMAIN ctx.claims : ctx.claims[i].Subject # order.user_id

\* C2: a DownloadURL request for an existing Download by a caller who is neither
\* the owner of its Order nor an admin, once its lookups have returned the rows,
\* is either about to be checked or has failed with Unauthorized, whether the
\* Order is paid or not.
C2_StrangerIsUnauthorized ==
    \A r \in URLReqs :
        (LookedUp(r) /\ HasTarget(r) /\ Stranger(req[r].ctx, TargetOrder(r)))
            => (req[r].pc = "Loaded" \/ Unauthorized(r))

\* C2 witness: user u2, not an admin, was refused D1, whose order is paid and
\* belongs to u1.
C2_Witness ==
    /\ req["r1"].op = "url"
    /\ req["r1"].download_id = "D1"
    /\ req["r1"].ctx = [claims |-> ClaimsOf("u2"), admin |-> FALSE]
    /\ TargetOrder("r1").payment_state = "paid"
    /\ Unauthorized("r1")
    /\ req["r1"].result.msg = "Not Authorized to access this download"

\* the step taken is the commit of request r's transaction
CommitStep(r) ==
    /\ req[r].op = "url"
    /\ req[r].pc = "InTx"
    /\ req'[r].pc = "Done"

\* the step adds one to the counter of r's Download and changes no other row
CountIncremented(r) ==
    /\ DOMAIN downloads' = DOMAIN downloads
    /\ \A d \in DOMAIN downloads :
          downloads'[d] =
              IF d = req[r].download_id
              THEN [downloads[d] EXCEPT !.download_count = downloads[d].download_count + 1]
              ELSE downloads[d]

\* the step appends exactly one event, tagged "download", of r's order
OneDownloadEvent(r) ==
    /\ Len(ledger') = Len(ledger) + 1
    /\ SubSeq(ledger', 1, Len(ledger)) = ledger
    /\ ledger'[Len(ledger')].order_id = downloads[req[r].download_id].order_id
    /\ ledger'[Len(ledger')].changes = <<"download">>

\* C3: the record step is atomic: after the commit step of a DownloadURL
\* request, whether or not the counter update, the event insert or the commit
\* failed, either the counter is incremented by 1 and exactly one new
\* "download" event of the order exists, or the counter and the ledger are
\* both as before.
C3_RecordIsAtomic ==
    [][\A r \in Reqs :
          CommitStep(r) =>
              \/ CountIncremented(r) /\ OneDownloadEvent(r)
              \/ downloads' = downloads /\ ledger' = ledger]_vars

\* some write of r's transaction failed, or its commit did
RecordFailed(r) ==
    /\ req[r].tx.begun
    /\ req[r].tx.updErr \/ req[r].tx.logErr \/ req[r].tx.commitErr

\* C4: a DownloadURL request whose transaction could not commit both writes
\* ends with an Internal error, not with success.
C4_RecordFailureIsInternal ==
    \A r \in URLReqs :
        (req[r].pc \in {"Done", "Failed"} /\ RecordFailed(r))
            => (req[r].pc = "Failed" /\ req[r].result.kind = "Internal")

\* the throttle check denied the request
Throttled(r) == Unauthorized(r) /\ req[r].result.msg = TooManyIPs

\* C5: the throttle check denies a request exactly when the count it read is
\* strictly greater than 50: a request that passed the check read at most 50,
\* a request the check denied read at least 51.
C5_ThrottleThreshold ==
    \A r \in URLReqs :
        /\ req[r].pc \in Admitted => req[r].count <= 50
        /\ Throttled(r) => req[r].count >= 51

\* C5 witness: with 50 distinct addresses in the window a request from a 51st
\* address read 50 and went through; the next request read 51 and was denied.
C5_Witness ==
    /\ req["r1"].op = "url"
    /\ req["r1"].pc = "Done"
    /\ req["r1"].count = 50
    /\ req["r1"].ip = 101
    /\ \A i \in DOMAIN ledger : i <= 50 => ledger[i].ip # 101
    /\ Throttled("r2")
    /\ req["r2"].count = 51

\* the step taken is a count query of request r that returned a count
CountStep(r) ==
    /\ req[r].op = "url"
    /\ req[r].pc = "Authorized"
    /\ req'[r].pc \in {"ThrottleChecked", "Failed"}
    /\ req'[r].result.kind # "Internal"

\* the addresses of the events less than 24 hours old at time t
YoungerThanADay(t) ==
    { ledger[i].ip : i \in { j \in DOMAIN ledger : t - ledger[j].created_at < 24 } }

\* C6: an event counts at time now only if it was created strictly after
\* now - 24h: the count a request reads is at most the number of distinct
\* addresses among the events less than 24 hours old; events exactly 24 hours
\* old, or older, add nothing.
C6_WindowLowerBoundary ==
    [][\A r \in Reqs :
          CountStep(r) => req'[r].count <= Cardinality(YoungerThanADay(now))]_vars

\* C6 witness: a request read a count of 0 although the ledger holds download
\* events of its order: they are exactly 24 hours old.
C6_Witness ==
    \E r \in URLReqs :
        /\ req[r].pc \in Admitted
        /\ req[r].count = 0
        /\ Len(ledger) >= 49
        /\ \A i \in 1..49 : /\ ledger[i].order_id = req[r].order.id
                            /\ ledger[i].created_at = now - 24

\* the transaction of r committed with both writes in it
RecordSucceeded(r) ==
    /\ req'[r].tx.begun
    /\ ~req'[r].tx.updErr
    /\ ~req'[r].tx.logErr
    /\ ~req'[r].tx.commitErr

\* C7: the commit of a DownloadURL request all of whose steps succeeded adds
\* exactly 1 to the Download's counter and appends exactly one event: of the
\* Download's order, of kind updated, tagged "download", with the request's
\* address and with the caller's subject, or the empty subject for a caller
\* without claims.
C7_SuccessRecordsOnce ==
    [][\A r \in Reqs :
          (CommitStep(r) /\ RecordSucceeded(r)) =>
              /\ CountIncremented(r)
              /\ OneDownloadEvent(r)
              /\ ledger'[Len(ledger')].type = "updated"
              /\ ledger'[Len(ledger')].ip = req[r].ip
              /\ ledger'[Len(ledger')].user_id =
                    IF req[r].ctx.claims = <<>> THEN ""
                    ELSE req[r].ctx.claims[1].Subject]_vars

\* C7 witness: both requests succeeded; r1 came without claims from address
\* 101, r2 from user u1, and the ledger holds an event for each.
C7_Witness ==
    /\ req["r1"].op = "url" /\ req["r1"].pc = "Done" /\ ~RecordFailed("r1")
    /\ req["r2"].op = "url" /\ req["r2"].pc = "Done" /\ ~RecordFailed("r2")
    /\ req["r1"].ctx.claims = <<>>
    /\ \E i \in DOMAIN ledger : ledger[i].ip = 101 /\ ledger[i].user_id = ""
    /\ \E i \in DOMAIN ledger : ledger[i].ip = 102 /\ ledger[i].user_id = "u1"
    /\ downloads["D1"].download_count = Len(ledger)

\* C8: a DownloadURL request writes nothing before its commit: every step of
\* the request other than the commit, in particular every step that ends it
\* with NotFound, Unauthorized or Internal, leaves the counter of every
\* Download and the whole ledger unchanged, and a request that failed never
\* opened a transaction.
C8_FailureWritesNothing ==
    [][\A r \in Reqs :
          (req'[r].op = "url" /\ req'[r] # req[r] /\ req'[r].pc # "Done") =>
              /\ downloads' = downloads
              /\ ledger' = ledger
              /\ req'[r].pc = "Failed" => ~req'[r].tx.begun]_vars

\* C8 witness: r1 was refused for an unpaid order and r2, having loaded D1,
\* failed with an Internal error at its count query or at signing; nothing was
\* written.
C8_Witness ==
    /\ Unauthorized("r1")
    /\ req["r1"].op = "url"
    /\ req["r1"].result.msg = "This download has not been paid yet"
    /\ req["r2"].pc = "Failed"
    /\ req["r2"].result.kind = "Internal"
    /\ req["r2"].download.id = "D1"
    /\ ledger = SeedLedger(Len(ledger))
    /\ downloads["D1"].download_count = Len(ledger)

\* C9: the Download returned by a successful DownloadURL request carries the
\* signed URL and the incremented counter: its download_count is the stored
\* download_count right after the request's commit.
C9_ResponseHasNewCount ==
    [][\A r \in Reqs :
          (CommitStep(r) /\ RecordSucceeded(r)) =>
              /\ req'[r].body.url = "signed"
              /\ req'[r].body.download_count
                    = downloads'[req[r].download_id].download_count]_vars

\* C10: the ledger only grows: every step keeps every event where it is, with
\* all its fields, and never makes the ledger shorter.
C10_LedgerAppendOnly ==
    [][/\ Len(ledger') >= Len(ledger)
       /\ \A i \in DOMAIN ledger : ledger'[i] = ledger[i]]_vars

\* C10 witness: a refresh of order O1 and a download of D1 both completed, the
\* clock moved past the seeded events' window, and the ledger holds the seeded
\* events and the new one.
C10_Witness ==
    /\ req["r1"].op = "refresh" /\ req["r1"].pc = "Done"
    /\ req["r2"].op = "url" /\ req["r2"].pc = "Done"
    /\ now = SeedTime + WindowHours
    /\ Len(ledger) = 50
    /\ SubSeq(ledger, 1, 49) = SeedLedger(49)
    /\ ledger[50].ip = 102

ListReqs == { r \in Reqs : req[r].op = "list" }

\* the request has been answered
Answered(r) == req[r].pc \in {"Done", "Failed"}

\* C11: a DownloadList request with offset -1 or a negative limit fails with
\* BadRequest and has issued no store query (no order lookup, no count or
\* select), whether or not it names an order.
C11_BadPaginationTouchesNothing ==
    \A r \in ListReqs :
        (Answered(r) /\ (req[r].offset = -1 \/ req[r].limit < 0))
            => /\ req[r].pc = "Failed"
               /\ req[r].result.kind = "BadRequest"
               /\ req[r].queries = <<>>

\* the caller owns the order or is an admin
Entitled(ctx, order) ==
    \/ ctx.admin
    \/ \E i \in DOMAIN ctx.claims : ctx.claims[i].Subject = order.user_id

\* C12: every Download a DownloadList request returns belongs to a paid Order;
\* with an order id given it belongs to that order, and the caller owns the
\* order or is an admin; without one it belongs to an order owned by the
\* caller.  A request that names an existing order the caller may not access,
\* or one that is not paid, is answered Unauthorized unless the order lookup
\* itself failed.
C12_ListIsPaidAndScoped ==
    \A r \in ListReqs :
        /\ \A i \in DOMAIN req[r].list :
              LET d == req[r].list[i] IN
              /\ d.order_id \in DOMAIN orders
              /\ orders[d.order_id].payment_state = "paid"
              /\ IF req[r].order_id # ""
                 THEN /\ d.order_id = req[r].order_id
                      /\ Entitled(req[r].ctx, orders[d.order_id])
                 ELSE \E j \in DOMAIN req[r].ctx.claims :
                         orders[d.order_id].user_id = req[r].ctx.claims[j].Subject
        /\ ( /\ Answered(r)
             /\ req[r].order_id \in DOMAIN orders
             /\ req[r].result.kind # "Internal"
             /\ \/ ~Entitled(req[r].ctx, orders[req[r].order_id])
                \/ orders[req[r].order_id].payment_state # "paid" )
           => Unauthorized(r)

\* C12 witness: user u1, naming no order, was returned D1 of the paid order O1
\* and not D2 of the unpaid order O2, which u1 owns too.
C12_Witness ==
    /\ req["r1"].op = "list"
    /\ req["r1"].pc = "Done"
    /\ req["r1"].order_id = ""
    /\ req["r1"].ctx.claims = ClaimsOf("u1")
    /\ Len(req["r1"].list) = 1
    /\ req["r1"].list[1].id = "D1"
    /\ downloads["D2"].order_id = "O2"
    /\ orders["O2"].user_id = "u1"

\* the steps of DownloadURL in their order, as pairs of positions
URLSteps ==
    { <<"Idle", "Start">>, <<"Start", "Loaded">>, <<"Loaded", "Authorized">>,
      <<"Authorized", "ThrottleChecked">>, <<"ThrottleChecked", "Signed">>,
      <<"Signed", "InTx">>, <<"InTx", "Done">> }

\* the error a step may end the request with
StepErrors ==
    { <<"Start", "Internal">>, <<"Start", "NotFound">>, <<"Loaded", "Unauthorized">>,
      <<"Authorized", "Internal">>, <<"Authorized", "Unauthorized">>,
      <<"ThrottleChecked", "Internal">> }

\* request r moves by one step of the order, or from a step to its error;
\* once answered it does nothing more
InStepOrder(r) ==
    /\ Answered(r) => req'[r] = req[r]
    /\ req'[r].pc # req[r].pc =>
          \/ <<req[r].pc, req'[r].pc>> \in URLSteps
          \/ /\ req'[r].pc = "Failed"
             /\ <<req[r].pc, req'[r].result.kind>> \in StepErrors

\* what has run in request r implies that what precedes it has passed
ChecksPassed(r) ==
    /\ req[r].download.url = "signed" =>
          /\ req[r].pc \in {"Signed", "InTx", "Done"}
          /\ Entitled(req[r].ctx, req[r].order)
          /\ req[r].order.payment_state = "paid"
          /\ req[r].count <= maxIPsPerDay
    /\ req[r].tx.begun => req[r].download.url = "signed"
    /\ req[r].pc = "Failed" => req[r].download.url = "" /\ ~req[r].tx.begun
    /\ req[r].result.kind # "" => Answered(r)
    /\ req[r].result.msg = "This download has not been paid yet" =>
          Entitled(req[r].ctx, req[r].order)
    /\ req[r].result.msg = TooManyIPs =>
          /\ Entitled(req[r].ctx, req[r].order)
          /\ req[r].order.payment_state = "paid"

\* C13: DownloadURL runs load, ownership check, paid check, throttle check,
\* SignURL, record in this order and stops at the first step that fails: a
\* failed request takes no further step, the URL is signed only in a request
\* whose ownership, paid and throttle checks passed, and the transaction is
\* begun only after the URL was signed.
C13_StepOrder ==
    [][\A r \in Reqs :
          req'[r].op = "url" => InStepOrder(r) /\ ChecksPassed(r)']_vars

\* C13 witness: one request ran all its steps, another was stopped at the
\* throttle check with no URL signed and no transaction begun.
C13_Witness ==
    /\ req["r1"].op = "url"
    /\ req["r1"].pc = "Done"
    /\ req["r1"].download.url = "signed"
    /\ Throttled("r2")
    /\ req["r2"].download.url = ""
    /\ ~req["r2"].tx.begun

\* the step taken is the failure of SignURL in request r
SignFailStep(r) ==
    /\ req[r].op = "url"
    /\ req[r].pc = "ThrottleChecked"
    /\ req'[r].pc = "Failed"

\* C14: when SignURL fails the request ends with an Internal error at that
\* step, with download_count and the ledger unchanged and no transaction
\* begun; the failed request never acts again (SignURL is not retried), and a
\* request is past the signing step only with a signed URL.
C14_SignFailureIsInternal ==
    [][\A r \in Reqs :
          /\ SignFailStep(r) =>
                /\ req'[r].result.kind = "Internal"
                /\ req'[r].download.url = ""
                /\ ~req'[r].tx.begun
                /\ downloads' = downloads
                /\ ledger' = ledger
          /\ (req[r].op = "url" /\ req[r].pc = "Failed") => req'[r] = req[r]
          /\ (req'[r].op = "url" /\ req'[r].pc \in {"Signed", "InTx", "Done"}) =>
                req'[r].download.url = "signed"]_vars

\* C14 witness: a request that had counted 49 addresses failed at SignURL; the
\* counter of its Download and the ledger are as they were at the start, 49
\* downloads and their 49 events.
C14_Witness ==
    \E r \in URLReqs :
        /\ req[r].pc = "Failed"
        /\ req[r].result = [kind |-> "Internal", msg |-> "Error signing download"]
        /\ req[r].count = maxIPsPerDay - 1
        /\ downloads[req[r].download_id].download_count = maxIPsPerDay - 1
        /\ ledger = SeedLedger(maxIPsPerDay - 1)

\* the reference count: the distinct addresses among the events of the order
\* whose tags include "download" and whose timestamp lies in (t - 24h, t]
ReferenceCount(events, orderID, t) ==
    Cardinality({ events[i].ip : i \in
        { j \in DOMAIN events :
            /\ events[j].order_id = orderID
            /\ \E k \in DOMAIN events[j].changes : events[j].changes[k] = "download"
            /\ events[j].created_at > t - 24
            /\ events[j].created_at <= t } })

DistinctInWindow(orderID) ==
    Cardinality({ ledger[i].ip : i \in
        { j \in DOMAIN ledger : /\ ledger[j].order_id = orderID
                                /\ ledger[j].changes = <<"download">>
                                /\ now - ledger[j].created_at < 24 } })

\* the requests for the order that the throttle check let pass
AdmittedFor(orderID) ==
    { r \in URLReqs : req[r].pc \in Admitted /\ req[r].order.id = orderID }

\* C16: the throttle read is not serialized with the writes of other
\* requests: k concurrent DownloadURL requests from new addresses can all
\* read a count of 50 and all commit, leaving 50 + k distinct addresses in the
\* window.  The window never holds more than 50 plus the number of requests,
\* and holds more than 51 only when that many requests were let pass on a
\* count of at most 50.
C16_OverAdmission ==
    \A o \in DOMAIN orders :
        /\ DistinctInWindow(o) <= maxIPsPerDay + Cardinality(Reqs)
        /\ DistinctInWindow(o) > maxIPsPerDay + 1 =>
              /\ DistinctInWindow(o) - maxIPsPerDay <= Cardinality(AdmittedFor(o))
              /\ \A r \in AdmittedFor(o) : req[r].count <= maxIPsPerDay

\* C16 witness: two requests from two new addresses both read 50 and both
\* committed: 52 distinct addresses in the window.
C16_Witness ==
    /\ req["r1"].op = "url" /\ req["r2"].op = "url"
    /\ req["r1"].pc = "Done" /\ req["r2"].pc = "Done"
    /\ req["r1"].count = maxIPsPerDay /\ req["r2"].count = maxIPsPerDay
    /\ req["r1"].ip # req["r2"].ip
    /\ DistinctInWindow("O1") = maxIPsPerDay + 2

\* C17: a DownloadURL request whose lookups ran without a store failure and
\* whose Download does not exist, or exists with an Order that does not, has
\* failed with NotFound (never Internal), naming which of the two is missing;
\* no Order was loaded for a check, no count was read, no URL was signed and
\* no transaction was begun.
C17_MissingIsNotFound ==
    \A r \in URLReqs :
        (LookedUp(r) /\ ~HasTarget(r)) =>
            /\ req[r].pc = "Failed"
            /\ req[r].result.kind = "NotFound"
            /\ req[r].result.msg =
                  IF req[r].download_id \in DOMAIN downloads
                  THEN "Download order not found"
                  ELSE "Download not found"
            /\ req[r].order = NoOrder
            /\ req[r].count = 0
            /\ req[r].download.url = ""
            /\ ~req[r].tx.begun

\* C17 witness: an admin asked for D3, which exists while its order O9 does
\* not, after another request had left 50 addresses in the window.
C17_Witness ==
    /\ req["r1"].op = "url"
    /\ req["r1"].download_id = "D3"
    /\ req["r1"].ctx.admin
    /\ downloads["D3"].order_id \notin DOMAIN orders
    /\ req["r1"].pc = "Failed"
    /\ req["r1"].result = [kind |-> "NotFound", msg |-> "Download order not found"]
    /\ req["r2"].pc = "Done"
    /\ DistinctInWindow("O1") = maxIPsPerDay

\* the Downloads of an order
DownloadsOf(orderID) == { d \in DOMAIN downloads : downloads[d].order_id = orderID }

\* the sum of download_count over a set of Downloads
RECURSIVE SumCounts(_)
SumCounts(ds) ==
    IF ds = {} THEN 0
    ELSE LET d == CHOOSE x \in ds : TRUE
         IN downloads[d].download_count + SumCounts(ds \ {d})

\* the number of events of an order whose tags include "download"
DownloadEvents(orderID) ==
    Cardinality({ i \in DOMAIN ledger :
        /\ ledger[i].order_id = orderID
        /\ \E k \in DOMAIN ledger[i].changes : ledger[i].changes[k] = "download" })

\* C18: counter and ledger never disagree: in every state reached by
\* concurrent DownloadURL requests, succeeding or failing at any step, from a
\* store where they agree, the sum of download_count over the Downloads of
\* each order equals the number of "download" events of that order.
C18_CounterMatchesLedger ==
    \A d \in DOMAIN downloads :
        SumCounts(DownloadsOf(downloads[d].order_id))
            = DownloadEvents(downloads[d].order_id)

\* C19: when DownloadURL requests are executed one at a time, no two of them
\* overlapping between throttle read and commit, the distinct addresses of an
\* order's download events in the trailing 24 hours number at most 51 at every
\* instant.
C19_SerialAtMost51 ==
    \A o \in DOMAIN orders : DistinctInWindow(o) <= maxIPsPerDay + 1

\* C19 witness: the first request read 50 and committed the 51st address, the
\* second then read 51 and was refused.
C19_Witness ==
    /\ req["r1"].op = "url"
    /\ req["r1"].pc = "Done"
    /\ req["r1"].count = maxIPsPerDay
    /\ req["r1"].ip \notin { ledger[i].ip : i \in 1..maxIPsPerDay }
    /\ Throttled("r2")
    /\ req["r2"].count = maxIPsPerDay + 1
    /\ DistinctInWindow("O1") = maxIPsPerDay + 1

\* the step taken is the refusal of request r by the throttle check
ThrottleDenyStep(r) ==
    /\ req[r].op = "url"
    /\ req[r].pc = "Authorized"
    /\ req'[r].pc = "Failed"
    /\ req'[r].result.kind = "Unauthorized"

\* C20: throttling is not permanent: the step that refuses a DownloadURL
\* request at the throttle check leaves the ledger and the counters as they
\* are, and a refused request never begins a transaction; and whenever at most
\* 50 distinct addresses remain in the trailing 24 hours, the throttle check of
\* an entitled caller's request on the paid order lets it pass.
C20_ThrottleIsNotPermanent ==
    [][\A r \in Reqs :
          /\ ThrottleDenyStep(r) =>
                /\ ledger' = ledger
                /\ downloads' = downloads
                /\ req'[r].result.msg = TooManyIPs
                /\ ~req'[r].tx.begun
          /\ (CountStep(r) /\ DistinctInWindow(req[r].order.id) <= maxIPsPerDay) =>
                req'[r].pc = "ThrottleChecked"
          /\ Throttled(r) => req'[r] = req[r]]_vars

\* C20 witness: with 51 addresses in the window one request was refused and
\* added nothing to the ledger; an hour later the 51 events have left the
\* window and another request of the owner was let pass on a count of 0.
C20_Witness ==
    /\ Throttled("r2")
    /\ req["r2"].count = maxIPsPerDay + 1
    /\ ledger = SeedLedger(maxIPsPerDay + 1)
    /\ now = StartTime + 1
    /\ req["r1"].op = "url"
    /\ req["r1"].pc \in Admitted
    /\ req["r1"].count = 0
    /\ Entitled(req["r1"].ctx, req["r1"].order)

====
